---- MODULE Spec2Model ----
(***************************************************************************)
(* The recursive site crawler of src/siteCrawler.py: crawl_recursive_batch *)
(* (the depth-bounded crawl loop), its nested crawl_url units, and the     *)
(* helpers is_downloadable, download_file, get_next_proxy, normalize_url   *)
(* and safe_filename.                                                      *)
(*                                                                         *)
(* A Python str is modelled as a sequence of one-character strings, so     *)
(* that urlparse / urlunparse / str.lower / str.rstrip are computed and    *)
(* not assumed.                                                            *)
(***************************************************************************)
EXTENDS Integers, Sequences, FiniteSets, TLC

(***************************************************************************)
(* Python str primitives                                                   *)
(***************************************************************************)
LowerLetters == <<"a","b","c","d","e","f","g","h","i","j","k","l","m",
                  "n","o","p","q","r","s","t","u","v","w","x","y","z">>

UpperLetters == <<"A","B","C","D","E","F","G","H","I","J","K","L","M",
                  "N","O","P","Q","R","S","T","U","V","W","X","Y","Z">>

Digits == {"0","1","2","3","4","5","6","7","8","9"}

Range(s) == {s[i] : i \in 1..Len(s)}

IsAlpha(c) == c \in Range(LowerLetters) \cup Range(UpperLetters)

\* c.lower() for one character
LowerChar(c) ==
    IF c \in Range(UpperLetters)
    THEN LowerLetters[CHOOSE i \in 1..26 : UpperLetters[i] = c]
    ELSE c

\* s.lower()
Lower(s) == [i \in 1..Len(s) |-> LowerChar(s[i])]

\* s.find(c, start) with 1-based positions; 0 when c does not occur at or
\* after position start
Find(s, c, start) ==
    LET hits == {i \in start..Len(s) : s[i] = c}
    IN  IF hits = {} THEN 0 ELSE CHOOSE i \in hits : \A j \in hits : i <= j

\* s.rfind(c), 1-based; 0 when c does not occur
RFind(s, c) ==
    LET hits == {i \in 1..Len(s) : s[i] = c}
    IN  IF hits = {} THEN 0 ELSE CHOOSE i \in hits : \A j \in hits : i >= j

Contains(s, c) == \E i \in 1..Len(s) : s[i] = c

\* s[i:] for a 1-based first position i
From(s, i) == SubSeq(s, i, Len(s))

\* s[:i] exclusive of the 1-based position i
Upto(s, i) == SubSeq(s, 1, i - 1)

\* s.rstrip(c): every trailing c is removed
RStrip(s, c) ==
    LET keep == {i \in 1..Len(s) : s[i] # c}
    IN  IF keep = {} THEN <<>>
        ELSE SubSeq(s, 1, CHOOSE i \in keep : \A j \in keep : i >= j)

\* s.endswith(suffix)
EndsWith(s, suffix) ==
    /\ Len(suffix) <= Len(s)
    /\ SubSeq(s, Len(s) - Len(suffix) + 1, Len(s)) = suffix

\* s.startswith(prefix)
StartsWith(s, prefix) ==
    /\ Len(prefix) <= Len(s)
    /\ SubSeq(s, 1, Len(prefix)) = prefix

(***************************************************************************)
(* urllib.parse, as imported at siteCrawler.py line 4                      *)
(***************************************************************************)
Http == <<"h","t","t","p">>

Https == <<"h","t","t","p","s">>

\* the members of urllib.parse.uses_params / uses_netloc that the URLs of
\* this model can carry as a scheme: the empty scheme, http and https
uses_params == {<<>>, Http, Https}

uses_netloc == {<<>>, Http, Https}

scheme_chars == Range(LowerLetters) \cup Range(UpperLetters) \cup Digits \cup {"+", "-", "."}

\* The parsing functions below are written as chains of small operators,
\* each passing on what the Python code holds in its local variables.

\* _splitnetloc(url, 2) given delim, the position of the first of / ? #
\* from the third character on (Len(url) + 1 when there is none)
splitnetloc_at(url, delim) ==
    [netloc |-> SubSeq(url, 3, delim - 1), rest |-> From(url, delim)]

\* the least member of a set of positions, or none when it is empty
MinOr(ds, none) == IF ds = {} THEN none ELSE CHOOSE i \in ds : \A j \in ds : i <= j

\* _splitnetloc(url, 2)
splitnetloc(url) ==
    splitnetloc_at(url, MinOr({i \in 3..Len(url) : url[i] \in {"/", "?", "#"}}, Len(url) + 1))

\* s.split(c, 1) given i, the result of Find(s, c, 1): head and tail, the
\* tail empty when c does not occur
SplitAt(s, i) ==
    IF i > 0 THEN [head |-> Upto(s, i), tail |-> From(s, i + 1)]
    ELSE [head |-> s, tail |-> <<>>]

\* urlsplit, the result
SplitResult(scheme, netloc, pq, fragment) ==
    [scheme |-> scheme, netloc |-> netloc, path |-> pq.head,
     query |-> pq.tail, fragment |-> fragment]

\* urlsplit, `if '?' in url`
urlsplit_query(scheme, netloc, uf) ==
    SplitResult(scheme, netloc, SplitAt(uf.head, Find(uf.head, "?", 1)), uf.tail)

\* urlsplit, `if allow_fragments and '#' in url`
urlsplit_fragment(scheme, nr) ==
    urlsplit_query(scheme, nr.netloc, SplitAt(nr.rest, Find(nr.rest, "#", 1)))

\* urlsplit, `if url[:2] == '//'`
urlsplit_netloc(scheme, url) ==
    urlsplit_fragment(scheme,
        IF StartsWith(url, <<"/", "/">>) THEN splitnetloc(url)
        ELSE [netloc |-> <<>>, rest |-> url])

\* urlsplit, the test on the text before the first colon (at position i)
HasScheme(url, i) ==
    /\ i > 1
    /\ IsAlpha(url[1])
    /\ \A k \in 1..(i - 1) : url[k] \in scheme_chars

\* urlsplit, the scheme and what follows it
urlsplit_scheme(url, hasScheme, i) ==
    urlsplit_netloc(IF hasScheme THEN Lower(Upto(url, i)) ELSE <<>>,
                    IF hasScheme THEN From(url, i + 1) ELSE url)

urlsplit_colon(url, i) == urlsplit_scheme(url, HasScheme(url, i), i)

\* urlsplit(url): scheme, netloc, path (with params), query, fragment
urlsplit(url) == urlsplit_colon(url, Find(url, ":", 1))

\* _splitparams(url) given i, the position of the ; that starts the params
splitparams_at(url, i) ==
    IF i = 0 THEN [path |-> url, params |-> <<>>]
    ELSE [path |-> Upto(url, i), params |-> From(url, i + 1)]

\* _splitparams(url): the params follow the first ; of the last path segment
splitparams(url) ==
    splitparams_at(url, IF Contains(url, "/") THEN Find(url, ";", RFind(url, "/"))
                        ELSE Find(url, ";", 1))

\* urlparse, the result
ParseResult(s, sp) ==
    [scheme |-> s.scheme, netloc |-> s.netloc, path |-> sp.path,
     params |-> sp.params, query |-> s.query, fragment |-> s.fragment]

\* urlparse after urlsplit
urlparse_params(s) ==
    ParseResult(s, IF s.scheme \in uses_params /\ Contains(s.path, ";")
                   THEN splitparams(s.path)
                   ELSE [path |-> s.path, params |-> <<>>])

\* urlparse(url): the six components
urlparse(url) == urlparse_params(urlsplit(url))

\* urlunsplit, `if netloc or (scheme and scheme in uses_netloc and url[:2] != '//')`
urlunsplit_netloc(scheme, netloc, path) ==
    IF \/ netloc # <<>>
       \/ /\ scheme # <<>>
          /\ scheme \in uses_netloc
          /\ ~StartsWith(path, <<"/", "/">>)
    THEN <<"/", "/">> \o netloc \o
         (IF path # <<>> /\ path[1] # "/" THEN <<"/">> ELSE <<>>) \o path
    ELSE path

\* s, followed by sep and part when part is not empty
WithPart(s, sep, part) == IF part # <<>> THEN s \o <<sep>> \o part ELSE s

\* urlunsplit, `if scheme`
urlunsplit_scheme(scheme, url) == IF scheme # <<>> THEN scheme \o <<":">> \o url ELSE url

\* urlunsplit((scheme, netloc, url, query, fragment))
urlunsplit(scheme, netloc, path, query, fragment) ==
    WithPart(WithPart(urlunsplit_scheme(scheme, urlunsplit_netloc(scheme, netloc, path)),
                      "?", query),
             "#", fragment)

\* urlunparse(components): a 6-tuple given as a record
urlunparse(c) ==
    urlunsplit(c.scheme, c.netloc, WithPart(c.path, ";", c.params), c.query, c.fragment)

\* urldefrag(url)[0]
urldefrag(url) ==
    IF Contains(url, "#")
    THEN urlunparse([urlparse(url) EXCEPT !.fragment = <<>>])
    ELSE url

(***************************************************************************)
(* normalize_url and safe_filename                                         *)
(***************************************************************************)
\* lines 107-109, on the result of urlparse
normalize_parsed(parsed) ==
    urlunparse([parsed EXCEPT !.path = Lower(RStrip(parsed.path, "/")),
                              !.scheme = Lower(parsed.scheme),
                              !.netloc = Lower(parsed.netloc)])

\* lines 102-109
normalize_url(url) == normalize_parsed(urlparse(urldefrag(url)))

\* re.sub(r'[^a-zA-Z0-9_-]', '_', url)
safe_filename(url) ==
    [i \in 1..Len(url) |->
        IF IsAlpha(url[i]) \/ url[i] \in Digits \/ url[i] \in {"_", "-"}
        THEN url[i] ELSE "_"]

(***************************************************************************)
(* Module constants of siteCrawler.py                                      *)
(***************************************************************************)
USE_PROXIES == FALSE

MAX_RETRIES == 5

\* load_proxies(): the empty list while USE_PROXIES is off
proxies == IF ~USE_PROXIES THEN <<>> ELSE <<"proxy1", "proxy2">>

\* get_next_proxy(): the values one call can return
get_next_proxy == IF ~USE_PROXIES \/ proxies = <<>> THEN {"None"} ELSE Range(proxies)

(***************************************************************************)
(* Bounds of the model                                                     *)
(***************************************************************************)
MaxDepth == 2

MaxConcurrent == 2

(***************************************************************************)
(* The URLs of the model, and the sites the renderer serves                *)
(***************************************************************************)
SeedRoot == <<"H","T","T","P",":","/","/","A","/">>

UrlRoot == <<"h","t","t","p",":","/","/","a">>

UrlX == <<"h","t","t","p",":","/","/","a","/","x">>

LinkXAlias == <<"h","t","t","p",":","/","/","a","/","X","/","#","f">>

UrlY == <<"h","t","t","p",":","/","/","a","/","y">>

UrlDoc == <<"h","t","t","p",":","/","/","a","/","d",".","p","d","f">>

SeedOff == <<"h","t","t","p",":","/","/","B","/">>

UrlOff == <<"h","t","t","p",":","/","/","b">>

UrlOffHome == <<"h","t","t","p",":","/","/","b","/","h","o","m","e">>

HeaderName == <<"r",".","b","i","n">>

SeedUrls == {SeedRoot, UrlX, SeedOff}

NoLinks == <<>>

\* what crawler.arun yields for a page when it succeeds: result.url,
\* result.markdown and result.links["internal"] (the href of each entry)
Page(url, markdown, links) ==
    [none |-> FALSE, success |-> TRUE, url |-> url, markdown |-> markdown, links |-> links]

\* Python's None, as returned by crawl_url
None == [none |-> TRUE, success |-> FALSE, url |-> <<>>, markdown |-> "", links |-> NoLinks]

\* the site the renderer and the byte fetcher talk to. The root links to x
\* under two spellings, to another host and to a document; x links back to
\* the root and on to y; the other host redirects its root to /home
SitePage(u) ==
    CASE u = UrlRoot -> Page(u, "root text", <<UrlX, LinkXAlias, SeedOff, UrlDoc>>)
      [] u = UrlX    -> Page(u, "x text", <<SeedRoot, UrlY>>)
      [] u = UrlOff  -> Page(UrlOffHome, "off text", <<SeedOff, UrlX>>)
      [] OTHER       -> Page(u, "", NoLinks)

\* the kind of response the site gives to the header probe of a URL
SiteHeaders(u) == IF u = UrlY THEN "attachment" ELSE "html"

\* the filename the site puts in Content-Disposition, <<>> for none
SiteDisposition(u) == IF u = UrlY THEN HeaderName ELSE <<>>

\* the seed lists: the empty list, and every list of one or two seed URLs
SeedLists ==
    {<<>>} \cup {<<a>> : a \in SeedUrls} \cup {<<a, b>> : a, b \in SeedUrls}

\* the site of the end-to-end scenario: a root page, the page /a it links
\* to, and what the page /a may link to
ExSeed == <<"h","t","t","p","s",":","/","/","e","x","a","m","p","l","e",".","t","e","s","t","/">>

ExRoot == <<"h","t","t","p","s",":","/","/","e","x","a","m","p","l","e",".","t","e","s","t">>

ExA == <<"h","t","t","p","s",":","/","/","e","x","a","m","p","l","e",".","t","e","s","t","/","a">>

ExAAlias == <<"h","t","t","p","s",":","/","/","E","x","a","m","p","l","e",".","t","e","s","t","/","a","/","#","t","o","p">>

ExB == <<"h","t","t","p","s",":","/","/","e","x","a","m","p","l","e",".","t","e","s","t","/","b">>

ExOther == <<"h","t","t","p","s",":","/","/","o","t","h","e","r",".","t","e","s","t","/">>

ExOtherPage == <<"h","t","t","p","s",":","/","/","o","t","h","e","r",".","t","e","s","t","/","x">>

\* three more pages of that host, for seed lists of their own: two whose
\* URLs differ in one character that is not a letter, and one without text
ExPathPage == <<"h","t","t","p","s",":","/","/","e","x","a","m","p","l","e",".","t","e","s","t","/","a","/","b">>

ExUnderPage == <<"h","t","t","p","s",":","/","/","e","x","a","m","p","l","e",".","t","e","s","t","/","a","_","b">>

ExBlankPage == <<"h","t","t","p","s",":","/","/","e","x","a","m","p","l","e",".","t","e","s","t","/","c">>

\* every URL the crawl of this site can meet: as written in a seed list or
\* in a link, as reported by the renderer, and as normalized
WrittenUrls ==
    {SeedRoot, UrlRoot, UrlX, LinkXAlias, UrlY, UrlDoc, SeedOff, UrlOff, UrlOffHome,
     ExSeed, ExRoot, ExA, ExAAlias, ExB, ExOther, ExOtherPage,
     ExPathPage, ExUnderPage, ExBlankPage}

KnownUrls == WrittenUrls \cup {normalize_url(u) : u \in WrittenUrls}

\* normalize_url, urlparse(url).netloc.lower() and the host, computed once
\* for every known URL
Normalized == [u \in KnownUrls |-> normalize_url(u)]

NetlocLower == [u \in KnownUrls |-> Lower(urlparse(u).netloc)]

(***************************************************************************)
(* URL shapes: the inputs on which normalize_url and is_downloadable are   *)
(* applied on their own                                                    *)
(***************************************************************************)
\* the largest number of slashes after the last path segment
MaxSlashes == 1

\* scheme and host, in lower case and with one of them in upper case
Origins == {<<"h","t","t","p",":","/","/","h">>, <<"H","T","T","P",":","/","/","h">>, <<"h","t","t","p",":","/","/","H">>}

\* the path up to the parameters: empty, or one segment in either case
Stems == {<<>>, <<"/","a">>, <<"/","A">>}

\* the path ends in a slash before the parameters, or it does not
DirMarks == {<<>>, <<"/">>}

\* ;parameters of the last segment, ?query and #fragment, each present or not
ParamsParts == {<<>>, <<";","k">>}

QueryParts == {<<>>, <<"?","q">>}

FragmentParts == {<<>>, <<"#","f">>}

\* n slashes
Slashes(n) == [i \in 1..n |-> "/"]

\* the shape of a URL: which origin, stem and so on it is made of
\* (parameters belong to a path segment: none without a stem)
Shapes ==
    {s \in [origin : Origins, stem : Stems, dir : DirMarks, params : ParamsParts,
             slashes : 0..MaxSlashes, query : QueryParts, fragment : FragmentParts] :
        s.params = <<>> \/ s.stem # <<>>}

\* the URL of a shape, as written
UrlOfShape(s) ==
    s.origin \o s.stem \o s.dir \o s.params \o Slashes(s.slashes) \o s.query \o s.fragment

\* two shapes that differ at most by the fragment, by slashes after the
\* path, and by the letter case of scheme, host or path
Alike(s, t) ==
    /\ Lower(s.origin) = Lower(t.origin)
    /\ Lower(s.stem) = Lower(t.stem)
    /\ s.params = t.params
    /\ s.query = t.query

\* the seed lists of two alike URLs
AlikeLists ==
    {<<UrlOfShape(p[1]), UrlOfShape(p[2])>> : p \in {q \in Shapes \X Shapes : Alike(q[1], q[2])}}

ShapeUrls == {UrlOfShape(s) : s \in Shapes}

\* normalize_url, computed once for every shape URL and every result
NormalizedShape == [u \in ShapeUrls \cup {normalize_url(v) : v \in ShapeUrls} |-> normalize_url(u)]

\* c.upper() for one character
UpperChar(c) ==
    IF c \in Range(LowerLetters)
    THEN UpperLetters[CHOOSE i \in 1..26 : LowerLetters[i] = c]
    ELSE c

\* every spelling of s in lower and upper case letters
Casings(s) ==
    {[i \in 1..Len(s) |-> IF i \in up THEN UpperChar(s[i]) ELSE s[i]] : up \in SUBSET (1..Len(s))}

\* what a URL given to is_downloadable ends in: a document extension in
\* any spelling, or something else
DocEndings == UNION {Casings(e) : e \in {<<".","p","d","f">>, <<".","d","o","c">>, <<".","d","o","c","x">>, <<".","t","x","t">>}}

OtherEndings == {<<>>, <<".","h","t","m","l">>, <<".","p","d">>, <<".","p","d","f","/">>, <<".","p","d","f","?","q">>, <<".","p","d","f","x">>}

\* the URLs given to is_downloadable: a path or a query, and an ending
DocShapeUrls ==
    {stem \o ending : stem \in {<<"h","t","t","p",":","/","/","h","/","a">>, <<"h","t","t","p",":","/","/","h","/","a","?","q","=","b">>},
                      ending \in DocEndings \cup OtherEndings}

(***************************************************************************)
(* is_downloadable and download_file                                       *)
(***************************************************************************)
DocExtensions == {<<".","p","d","f">>, <<".","d","o","c">>, <<".","d","o","c","x">>, <<".","t","x","t">>}

\* HasDocExtension without url.lower()
HasDocExtensionAsWritten(url) == \E e \in DocExtensions : EndsWith(url, e)

\* line 19: url.lower().endswith((".pdf", ".doc", ".docx", ".txt"))
HasDocExtension(url) == \E e \in DocExtensions : EndsWith(Lower(url), e)

\* what the header probe of lines 24-26 can bring back for a URL: the
\* site's response, or an exception (network error, timeout)
ProbeReplies(url) == {SiteHeaders(url), "error"}

\* ProbeSaysDownloadable with `return True` in the except branch
ProbeErrorSaysDownloadable(reply) ==
    reply \in {"attachment", "pdf", "msword", "vnd", "plain", "error"}

\* lines 27-36: the answer of is_downloadable to a probe reply
ProbeSaysDownloadable(reply) == reply \in {"attachment", "pdf", "msword", "vnd", "plain"}

\* os.path.basename(path): what follows the last /
basename(path) == From(path, RFind(path, "/") + 1)

FallbackName == <<"d","o","w","n","l","o","a","d","e","d","_","f","i","l","e">>

\* lines 47-48: os.path.basename(path) or "downloaded_file"
NameFromPath(name) == IF name # <<>> THEN name ELSE FallbackName

\* lines 43-48: the local file name of a download
DownloadName(url, disposition) ==
    IF disposition # <<>> THEN disposition
    ELSE NameFromPath(basename(urlparse(url).path))

\* line 19 and lines 43-48, computed once for every known URL
IsDocUrl == [u \in KnownUrls \cup DocShapeUrls |-> HasDocExtension(u)]

SiteDownloadName == [u \in KnownUrls |-> DownloadName(u, SiteDisposition(u))]

(***************************************************************************)
(* State                                                                   *)
(***************************************************************************)
VARIABLES
    start_urls,      \* argument: the seed list
    max_depth,       \* argument
    max_concurrent,  \* argument
    pc,              \* crawl loop: "loop" (head of the for), "wave" (in gather), "done"
    depth,           \* the loop variable of line 114
    visited,         \* line 101
    current_urls,    \* lines 111, 187
    urls_to_crawl,   \* line 116, in the order the set was iterated
    units,           \* the crawl_url tasks of the wave, by position in urls_to_crawl
    semaphore,       \* free permits of the wave's asyncio.Semaphore
    outputs,         \* output/*.md: pairs <<file name, text>>
    docs,            \* output/docs: the file names written by download_file
    map_file,        \* links_map.txt: its text
    waves            \* history: urls_to_crawl of every wave started so far

vars == <<start_urls, max_depth, max_concurrent, pc, depth, visited,
          current_urls, urls_to_crawl, units, semaphore, outputs, docs,
          map_file, waves>>

args == <<start_urls, max_depth, max_concurrent>>

\* a crawl_url task before it has run
NewUnit(url) ==
    [url |-> url, pc |-> "wait", attempt |-> 0, calls |-> 0,
     probe |-> "none", downloads |-> 0, outcome |-> "none", result |-> None]

\* the orders in which a Python set can be iterated
Orders(S) == {o \in [1..Cardinality(S) -> S] : \A i, j \in 1..Cardinality(S) : o[i] = o[j] => i = j}

\* s with the elements outside the set keep removed, order kept
RECURSIVE Filter(_, _)
Filter(s, keep) ==
    IF s = <<>> THEN <<>>
    ELSE IF Head(s) \in keep THEN <<Head(s)>> \o Filter(Tail(s), keep)
    ELSE Filter(Tail(s), keep)

\* line 116 for one iteration order of current_urls
UrlsToCrawl(order, seen) ==
    LET normed == [i \in 1..Len(order) |-> Normalized[order[i]]]
    IN  Filter(normed, Range(normed) \ seen)

Init ==
    /\ start_urls \in SeedLists
    /\ max_depth \in 0..MaxDepth
    /\ max_concurrent \in 1..MaxConcurrent
    /\ pc = "loop"
    /\ depth = 0
    /\ visited = {}
    /\ current_urls = {Normalized[start_urls[i]] : i \in 1..Len(start_urls)}
    /\ urls_to_crawl = <<>>
    /\ units = <<>>
    /\ semaphore = 0
    /\ outputs = {}
    /\ docs = {}
    /\ map_file = <<>>
    /\ waves = <<>>

(***************************************************************************)
(* crawl_recursive_batch: the head of the loop, up to the gather           *)
(***************************************************************************)
\* StartWave with range(max_depth + 1)
StartWaveInclusive ==
    /\ pc = "loop"
    /\ depth <= max_depth
    /\ \E order \in Orders(current_urls) :
          LET todo == UrlsToCrawl(order, visited)
          IN  /\ todo # <<>>
              /\ urls_to_crawl' = todo
              /\ units' = [i \in 1..Len(todo) |-> NewUnit(todo[i])]
              /\ waves' = Append(waves, todo)
    /\ semaphore' = max_concurrent
    /\ pc' = "wave"
    /\ UNCHANGED <<args, depth, visited, current_urls, outputs, docs, map_file>>

\* lines 114-118 and 121-157: one more iteration starts its wave
StartWave ==
    /\ pc = "loop"
    /\ depth < max_depth
    /\ \E order \in Orders(current_urls) :
          LET todo == UrlsToCrawl(order, visited)
          IN  /\ todo # <<>>
              /\ urls_to_crawl' = todo
              /\ units' = [i \in 1..Len(todo) |-> NewUnit(todo[i])]
              /\ waves' = Append(waves, todo)
    /\ semaphore' = max_concurrent
    /\ pc' = "wave"
    /\ UNCHANGED <<args, depth, visited, current_urls, outputs, docs, map_file>>

\* line 114 with the range exhausted, or lines 117-118: the crawl ends
Finish ==
    /\ pc = "loop"
    /\ \/ depth >= max_depth
       \/ \A order \in Orders(current_urls) : UrlsToCrawl(order, visited) = <<>>
    /\ pc' = "done"
    /\ UNCHANGED <<args, depth, visited, current_urls, urls_to_crawl, units,
                   semaphore, outputs, docs, map_file, waves>>

(***************************************************************************)
(* crawl_url: one unit of a wave                                           *)
(***************************************************************************)
InFlightPcs == {"classify", "download", "body", "render", "sleep"}

\* Catches without the handler inside download_file
CatchesNotDownload(handler) == handler \in {"is_downloadable", "session", "attempt"}

\* Catches without the handler around crawler.arun
CatchesNotAttempt(handler) == handler \in {"is_downloadable", "download_file", "session"}

\* the try/except blocks around the network calls, each `except Exception`:
\* is_downloadable lines 23-36, download_file lines 41-65, crawl_url lines
\* 132-137 (around both) and crawl_url lines 143-151 (around crawler.arun)
Catches(handler) == handler \in {"is_downloadable", "download_file", "session", "attempt"}

\* the return of crawl_url: leaving `async with semaphore` frees the permit
Return(i, outcome, result, u) ==
    /\ units' = [units EXCEPT ![i] = [u EXCEPT !.pc = "done",
                                               !.outcome = outcome,
                                               !.result = result]]
    /\ semaphore' = semaphore + 1
    /\ pc' = pc

\* an exception that no handler of crawl_url catches leaves the task, and
\* the gather of line 157 raises it into crawl_recursive_batch
Raise(i, u) ==
    /\ units' = [units EXCEPT ![i] = [u EXCEPT !.pc = "raised"]]
    /\ semaphore' = semaphore + 1
    /\ pc' = "aborted"

\* the unit goes on, inside the semaphore, at the place next
Goto(i, next, u) ==
    /\ units' = [units EXCEPT ![i] = [u EXCEPT !.pc = next]]
    /\ semaphore' = semaphore
    /\ pc' = pc

\* Acquire with the gate left open: the permit count is not looked at
AcquireNoGate(i) ==
    /\ pc = "wave"
    /\ units[i].pc = "wait"
    /\ \A j \in 1..(i - 1) : units[j].pc # "wait"
    /\ semaphore' = semaphore - 1
    /\ units' = [units EXCEPT ![i].pc = "classify"]
    /\ UNCHANGED <<args, pc, depth, visited, current_urls, urls_to_crawl,
                   outputs, docs, map_file, waves>>

\* line 124: asyncio.Semaphore hands out its permits in the order of the
\* acquire calls, which is the order in which gather started the tasks
Acquire(i) ==
    /\ pc = "wave"
    /\ units[i].pc = "wait"
    /\ semaphore > 0
    /\ \A j \in 1..(i - 1) : units[j].pc # "wait"
    /\ semaphore' = semaphore - 1
    /\ units' = [units EXCEPT ![i].pc = "classify"]
    /\ UNCHANGED <<args, pc, depth, visited, current_urls, urls_to_crawl,
                   outputs, docs, map_file, waves>>

\* lines 125-133: the proxy draw and is_downloadable
Classify(i) ==
    /\ pc = "wave"
    /\ units[i].pc = "classify"
    /\ \E proxy \in get_next_proxy :
          IF IsDocUrl[units[i].url]
          THEN Goto(i, "download", [units[i] EXCEPT !.probe = "ext"])
          ELSE \E reply \in ProbeReplies(units[i].url) :
                  CASE reply # "error" /\ ProbeSaysDownloadable(reply) ->
                         Goto(i, "download", [units[i] EXCEPT !.probe = "doc"])
                    [] reply # "error" /\ ~ProbeSaysDownloadable(reply) ->
                         Goto(i, "render", [units[i] EXCEPT !.probe = "page"])
                    [] reply = "error" /\ Catches("is_downloadable") ->
                         Goto(i, IF ProbeSaysDownloadable(reply) THEN "download" ELSE "render",
                              [units[i] EXCEPT !.probe = "err"])
                    [] reply = "error" /\ ~Catches("is_downloadable") /\ Catches("session") ->
                         Goto(i, "render", [units[i] EXCEPT !.probe = "err"])
                    [] OTHER -> Raise(i, [units[i] EXCEPT !.probe = "err"])
    /\ UNCHANGED <<args, depth, visited, current_urls, urls_to_crawl,
                   outputs, docs, map_file, waves>>

\* where download_file can raise: in the GET, or while the body is streamed
\* into the file that line 53 has already opened
DownloadEnds == {"ok", "get error", "body error"}

\* Download with the task itself recording its URL in visited
DownloadMarksVisited(i) ==
    /\ pc = "wave"
    /\ units[i].pc = "download"
    /\ \E end \in DownloadEnds \ {"body error"} :
          LET name == SiteDownloadName[units[i].url]
              u == [units[i] EXCEPT !.downloads = @ + 1]
          IN  /\ docs' = IF end = "ok" THEN docs \cup {name} ELSE docs
              /\ CASE end = "ok" -> Goto(i, "body", u)
                   [] end # "ok" /\ Catches("download_file") ->
                        Return(i, "DownloadError", None, u)
                   [] end # "ok" /\ ~Catches("download_file") /\ Catches("session") ->
                        Goto(i, "render", u)
                   [] OTHER -> Raise(i, u)
    /\ visited' = visited \cup {units[i].url}
    /\ UNCHANGED <<args, depth, current_urls, urls_to_crawl, outputs, map_file, waves>>

\* lines 134 and 40-53: download_file up to its first read of the body: the
\* GET, the file name and open(filepath, "wb")
Download(i) ==
    /\ pc = "wave"
    /\ units[i].pc = "download"
    /\ \E end \in DownloadEnds \ {"body error"} :
          LET name == SiteDownloadName[units[i].url]
              u == [units[i] EXCEPT !.downloads = @ + 1]
          IN  /\ docs' = IF end = "ok" THEN docs \cup {name} ELSE docs
              /\ CASE end = "ok" -> Goto(i, "body", u)
                   [] end # "ok" /\ Catches("download_file") ->
                        Return(i, "DownloadError", None, u)
                   [] end # "ok" /\ ~Catches("download_file") /\ Catches("session") ->
                        Goto(i, "render", u)
                   [] OTHER -> Raise(i, u)
    /\ UNCHANGED <<args, depth, visited, current_urls, urls_to_crawl,
                   outputs, map_file, waves>>

\* line 63: the text of one record of the map file
MapRecord(url, filename) == url \o <<",">> \o filename \o <<"\n">>

\* DownloadBody with the record written in two awaited writes, as an
\* asynchronous file object would have it: the URL and the comma first,
\* the file name and the newline when the task runs again
DownloadBodyTwoWrites(i) ==
    /\ pc = "wave"
    /\ units[i].pc = "body"
    /\ LET name == SiteDownloadName[units[i].url]
       IN  IF units[i].downloads = 1
           THEN /\ map_file' = map_file \o units[i].url \o <<",">>
                /\ Goto(i, "body", [units[i] EXCEPT !.downloads = 2])
           ELSE /\ map_file' = map_file \o name \o <<"\n">>
                /\ Return(i, "Downloaded", None, [units[i] EXCEPT !.downloads = 1])
    /\ UNCHANGED <<args, depth, visited, current_urls, urls_to_crawl,
                   outputs, docs, waves>>

\* lines 54-63 and 135: the body is read chunk by chunk; after the read that
\* brings the empty chunk, and before any other await, the record is
\* appended to the map file and crawl_url returns None
DownloadBody(i) ==
    /\ pc = "wave"
    /\ units[i].pc = "body"
    /\ \E end \in DownloadEnds \ {"get error"} :
          LET name == SiteDownloadName[units[i].url]
          IN  /\ map_file' = IF end = "ok"
                             THEN map_file \o MapRecord(units[i].url, name)
                             ELSE map_file
              /\ CASE end = "ok" -> Return(i, "Downloaded", None, units[i])
                   [] end # "ok" /\ Catches("download_file") ->
                        Return(i, "DownloadError", None, units[i])
                   [] end # "ok" /\ ~Catches("download_file") /\ Catches("session") ->
                        Goto(i, "render", units[i])
                   [] OTHER -> Raise(i, units[i])
    /\ UNCHANGED <<args, depth, visited, current_urls, urls_to_crawl,
                   outputs, docs, waves>>

\* NextAttempt with the range one attempt short
NextAttemptOffByOne(i, u) ==
    IF u.attempt + 1 >= MAX_RETRIES - 1
    THEN Return(i, "GiveUp", None, [u EXCEPT !.attempt = @ + 1])
    ELSE Goto(i, "render", [u EXCEPT !.attempt = @ + 1])

\* lines 152-153 once the range of line 140 is exhausted, else the next attempt
NextAttempt(i, u) ==
    IF u.attempt + 1 >= MAX_RETRIES
    THEN Return(i, "GiveUp", None, [u EXCEPT !.attempt = @ + 1])
    ELSE Goto(i, "render", [u EXCEPT !.attempt = @ + 1])

RenderEnds == {"success", "failure", "exception"}

\* lines 140-150 for a renderer that can end in one of ends and that, when
\* it succeeds, yields page
RenderAttemptOn(i, ends, page) ==
    /\ pc = "wave"
    /\ units[i].pc = "render"
    /\ units[i].attempt < MAX_RETRIES
    /\ \E proxy \in get_next_proxy, end \in ends :
          LET u == [units[i] EXCEPT !.calls = @ + 1]
          IN  CASE end = "success" -> Return(i, "Success", page, u)
                [] end = "failure" -> NextAttempt(i, u)
                [] end = "exception" /\ Catches("attempt") -> Goto(i, "sleep", u)
                [] OTHER -> Raise(i, u)
    /\ UNCHANGED <<args, depth, visited, current_urls, urls_to_crawl,
                   outputs, docs, map_file, waves>>

\* RenderAttempt without the return of line 146: the result is kept and the
\* loop goes on
RenderAttemptNoReturn(i) ==
    /\ pc = "wave"
    /\ units[i].pc = "render"
    /\ units[i].attempt < MAX_RETRIES
    /\ \E proxy \in get_next_proxy, end \in {"success", "failure", "exception"} :
          LET u == [units[i] EXCEPT !.calls = @ + 1]
          IN  CASE end = "success" ->
                     Goto(i, "render", [u EXCEPT !.outcome = "Success",
                                                 !.result = SitePage(units[i].url)])
                [] end = "failure" ->
                     Goto(i, IF u.attempt + 1 >= MAX_RETRIES THEN "done" ELSE "render",
                          [u EXCEPT !.attempt = @ + 1])
                [] OTHER -> Goto(i, "sleep", u)
    /\ UNCHANGED <<args, depth, visited, current_urls, urls_to_crawl,
                   outputs, docs, map_file, waves>>

\* lines 140-150: one attempt, crawler.arun and what follows it up to the
\* next suspension
RenderAttempt(i) == RenderAttemptOn(i, RenderEnds, SitePage(units[i].url))

\* line 151: asyncio.sleep(1) is over
Sleep(i) ==
    /\ pc = "wave"
    /\ units[i].pc = "sleep"
    /\ NextAttempt(i, units[i])
    /\ UNCHANGED <<args, depth, visited, current_urls, urls_to_crawl,
                   outputs, docs, map_file, waves>>

(***************************************************************************)
(* crawl_recursive_batch: after the gather                                 *)
(***************************************************************************)
OutputPrefix == <<"o","u","t","p","u","t","/">>

OutputSuffix == <<".","m","d">>

\* OutputName with one file name for every page
OutputNameOfSite(url) == OutputPrefix \o <<"s","i","t","e">> \o OutputSuffix

\* line 173
OutputName(url) == OutputPrefix \o safe_filename(url) \o OutputSuffix

\* open(filename, "w") and write: the file holds text, whatever it held
WriteFile(files, name, text) == {f \in files : f[1] # name} \cup {<<name, text>>}

\* BaseDomain taken from the last seed URL instead of the first
BaseDomainOfLast(seeds) == NetlocLower[seeds[Len(seeds)]]

\* line 159
BaseDomain(seeds) == NetlocLower[seeds[1]]

\* KeptLinks without the comparison with base_domain
KeptLinksAnyDomain(links, base_domain, seen) ==
    {n \in {Normalized[links[k]] : k \in 1..Len(links)} : n \notin seen}

\* lines 179-182 for one result: the links that pass the filter
KeptLinks(links, base_domain, seen) ==
    {n \in {Normalized[links[k]] : k \in 1..Len(links)} :
        NetlocLower[n] = base_domain /\ n \notin seen}

\* lines 162-185: the loop over results, from result i on; acc is
\* visited, next_level_urls and the output directory so far
RECURSIVE FoldResults(_, _, _, _)
FoldResults(results, i, base_domain, acc) ==
    IF i > Len(results) THEN acc
    ELSE LET r == results[i]
         IN  IF r.none THEN FoldResults(results, i + 1, base_domain, acc)
             ELSE LET seen == acc.visited \cup {Normalized[r.url]}
                  IN  FoldResults(results, i + 1, base_domain,
                        IF r.success
                        THEN [visited |-> seen,
                              next |-> acc.next \cup KeptLinks(r.links, base_domain, seen),
                              outputs |-> IF r.markdown # ""
                                          THEN WriteFile(acc.outputs, OutputName(r.url), r.markdown)
                                          ELSE acc.outputs]
                        ELSE [acc EXCEPT !.visited = seen])

\* Fold as soon as one task has returned, as asyncio.wait with
\* FIRST_COMPLETED would have it
FoldEarly ==
    /\ pc = "wave"
    /\ \E i \in 1..Len(units) : units[i].pc = "done"
    /\ LET results == [i \in 1..Len(units) |-> units[i].result]
           acc == FoldResults(results, 1, BaseDomain(start_urls),
                              [visited |-> visited, next |-> {}, outputs |-> outputs])
       IN  /\ visited' = acc.visited
           /\ current_urls' = acc.next
           /\ outputs' = acc.outputs
    /\ depth' = depth + 1
    /\ pc' = "loop"
    /\ UNCHANGED <<args, urls_to_crawl, units, semaphore, docs, map_file, waves>>

\* Fold with the loop variable left as it is, as in a `while True` loop
FoldKeepDepth ==
    /\ pc = "wave"
    /\ \A i \in 1..Len(units) : units[i].pc = "done"
    /\ LET results == [i \in 1..Len(units) |-> units[i].result]
           acc == FoldResults(results, 1, BaseDomain(start_urls),
                              [visited |-> visited, next |-> {}, outputs |-> outputs])
       IN  /\ visited' = acc.visited
           /\ current_urls' = acc.next
           /\ outputs' = acc.outputs
    /\ depth' = depth
    /\ pc' = "loop"
    /\ UNCHANGED <<args, urls_to_crawl, units, semaphore, docs, map_file, waves>>

\* lines 157-187: gather returns when every task has returned; the results
\* are folded and the loop variable advances
Fold ==
    /\ pc = "wave"
    /\ \A i \in 1..Len(units) : units[i].pc = "done"
    /\ LET results == [i \in 1..Len(units) |-> units[i].result]
           acc == FoldResults(results, 1, BaseDomain(start_urls),
                              [visited |-> visited, next |-> {}, outputs |-> outputs])
       IN  /\ visited' = acc.visited
           /\ current_urls' = acc.next
           /\ outputs' = acc.outputs
    /\ depth' = depth + 1
    /\ pc' = "loop"
    /\ UNCHANGED <<args, urls_to_crawl, units, semaphore, docs, map_file, waves>>

Next ==
    \/ StartWave
    \/ Finish
    \/ Fold
    \/ \E i \in 1..Len(units) : Acquire(i)
    \/ \E i \in 1..Len(units) : Classify(i)
    \/ \E i \in 1..Len(units) : Download(i)
    \/ \E i \in 1..Len(units) : DownloadBody(i)
    \/ \E i \in 1..Len(units) : RenderAttempt(i)
    \/ \E i \in 1..Len(units) : Sleep(i)

Spec == Init /\ [][Next]_vars

\* the event loop keeps running a task that can run, and every network call
\* returns or times out (lines 10, 24, 42)
FairSpec == Spec /\ WF_vars(Next)

(***************************************************************************)
(* normalize_url and is_downloadable applied on their own                  *)
(***************************************************************************)
\* either two alike URLs are about to be normalized (line 111), or a
\* crawl_url task has entered the semaphore with a URL to classify
FuncInit ==
    /\ \/ /\ start_urls \in AlikeLists
          /\ pc = "input"
          /\ urls_to_crawl = <<>>
          /\ units = <<>>
       \/ /\ start_urls \in {<<u>> : u \in DocShapeUrls}
          /\ pc = "wave"
          /\ urls_to_crawl = start_urls
          /\ units = <<[NewUnit(start_urls[1]) EXCEPT !.pc = "classify"]>>
    /\ max_depth = 1
    /\ max_concurrent = 1
    /\ depth = 0
    /\ visited = {}
    /\ current_urls = {}
    /\ semaphore = 0
    /\ outputs = {}
    /\ docs = {}
    /\ map_file = <<>>
    /\ waves = <<>>

\* line 111: the set of the normalized seed URLs
FuncNormalize ==
    /\ pc = "input"
    /\ current_urls' = {NormalizedShape[start_urls[i]] : i \in 1..Len(start_urls)}
    /\ pc' = "normalized"
    /\ UNCHANGED <<args, depth, visited, urls_to_crawl, units, semaphore,
                   outputs, docs, map_file, waves>>

\* line 116: every URL of current_urls is normalized once more
FuncRenormalize ==
    /\ pc = "normalized"
    /\ \E order \in Orders(current_urls) :
          LET normed == [i \in 1..Len(order) |-> NormalizedShape[order[i]]]
          IN  urls_to_crawl' = Filter(normed, Range(normed) \ visited)
    /\ pc' = "renormalized"
    /\ UNCHANGED <<args, depth, visited, current_urls, units, semaphore,
                   outputs, docs, map_file, waves>>

FuncNext ==
    \/ FuncNormalize
    \/ FuncRenormalize
    \/ \E i \in 1..Len(units) : Classify(i)

FuncSpec == FuncInit /\ [][FuncNext]_vars

(***************************************************************************)
(* The end-to-end scenario: one seed, two levels, a renderer that always   *)
(* succeeds                                                                *)
(***************************************************************************)
\* the lists of links the page /a can carry: up to two of a link back to
\* the seed, another spelling of /a itself, a further page of the same
\* host and a page of the other host
MockLinkLists ==
    LET targets == {ExSeed, ExAAlias, ExB, ExOtherPage}
    IN  {<<>>} \cup {<<a>> : a \in targets} \cup {<<a, b>> : a, b \in targets}

\* what the renderer of the scenario can yield for a URL: the root page
\* links to /a and to the other host, in either order
MockPages(u) ==
    CASE u = ExRoot -> {Page(u, "root text", l) : l \in {<<ExA, ExOther>>, <<ExOther, ExA>>}}
      [] u = ExA    -> {Page(u, "a text", l) : l \in MockLinkLists}
      [] u = ExPathPage  -> {Page(u, "a/b text", NoLinks)}
      [] u = ExUnderPage -> {Page(u, "a_b text", NoLinks)}
      [] u = ExBlankPage -> {Page(u, "", NoLinks)}
      [] OTHER      -> {Page(u, "text", NoLinks)}

\* crawl_recursive_batch(["https://example.test/"], max_depth=2, ...)
ScenarioInit ==
    /\ start_urls = <<ExSeed>>
    /\ max_depth = 2
    /\ max_concurrent \in 1..MaxConcurrent
    /\ pc = "loop"
    /\ depth = 0
    /\ visited = {}
    /\ current_urls = {Normalized[start_urls[i]] : i \in 1..Len(start_urls)}
    /\ urls_to_crawl = <<>>
    /\ units = <<>>
    /\ semaphore = 0
    /\ outputs = {}
    /\ docs = {}
    /\ map_file = <<>>
    /\ waves = <<>>

\* lines 140-146 with the renderer of the scenario
ScenarioRender(i) ==
    \E page \in MockPages(units[i].url) : RenderAttemptOn(i, {"success"}, page)

\* the steps of the crawl; the renderer never fails, so no unit ever sleeps
ScenarioNext ==
    \/ StartWave
    \/ Finish
    \/ Fold
    \/ \E i \in 1..Len(units) : Acquire(i)
    \/ \E i \in 1..Len(units) : Classify(i)
    \/ \E i \in 1..Len(units) : ScenarioRender(i)

ScenarioSpec == ScenarioInit /\ [][ScenarioNext]_vars

\* crawl_recursive_batch(seeds, max_depth=1, ...) for one or two of the
\* three further pages, with the same renderer
PagesInit ==
    /\ start_urls \in LET pages == {ExPathPage, ExUnderPage, ExBlankPage}
                      IN  {<<a>> : a \in pages} \cup {<<a, b>> : a, b \in pages}
    /\ max_depth = 1
    /\ max_concurrent \in 1..MaxConcurrent
    /\ pc = "loop"
    /\ depth = 0
    /\ visited = {}
    /\ current_urls = {Normalized[start_urls[i]] : i \in 1..Len(start_urls)}
    /\ urls_to_crawl = <<>>
    /\ units = <<>>
    /\ semaphore = 0
    /\ outputs = {}
    /\ docs = {}
    /\ map_file = <<>>
    /\ waves = <<>>

PagesSpec == PagesInit /\ [][ScenarioNext]_vars

(***************************************************************************)
(* Properties                                                              *)
(***************************************************************************)
\* netloc without userinfo and port, lower-cased: the host of a URL
HostOfNetloc(n) == Lower(SplitAt(n, Find(n, ":", 1)).head)

HostOfUrl(url) == HostOfNetloc(From(urlparse(url).netloc, RFind(urlparse(url).netloc, "@") + 1))

HostOf == [u \in KnownUrls |-> HostOfUrl(u)]

UnitIds == 1..Len(units)

\* the units that hold a permit of the semaphore
InFlight == {i \in UnitIds : units[i].pc \in InFlightPcs}

\* the loop is between two waves, or over, and at least one wave was folded
Folded == pc \in {"loop", "done"} /\ waves # <<>>

\* C1: over a whole crawl, no normalized URL is handed to a unit in two
\* different waves, whatever the outcome of its first processing.
C1_UrlInAtMostOneWave ==
    \A d1, d2 \in 1..Len(waves) :
        d1 # d2 => Range(waves[d1]) \cap Range(waves[d2]) = {}

\* C2: after the fold of a wave, every URL of that wave's urls_to_crawl is
\* in visited, whatever the outcome of its unit.
C2_WaveUrlsVisited == Folded => Range(urls_to_crawl) \subseteq visited

\* C3: the number of units inside classification, download, render or
\* backoff never exceeds max_concurrent, whatever the size of the wave.
C3_ConcurrencyBound == Cardinality(InFlight) <= max_concurrent

C3_Witness ==
    /\ Len(units) > max_concurrent
    /\ Cardinality(InFlight) = max_concurrent
    /\ \E i \in UnitIds : units[i].pc = "wait"

\* C4: visited, the frontier, the depth and the set of started waves change
\* only in steps taken when every unit of the running wave has returned: no
\* unit of the next depth starts, and no fold happens, while a unit of the
\* current depth is in flight.
C4_Barrier ==
    [][(\/ visited' # visited
        \/ current_urls' # current_urls
        \/ depth' # depth
        \/ waves' # waves
        \/ urls_to_crawl' # urls_to_crawl)
       => \A i \in UnitIds : units[i].pc = "done"]_vars

C4_Witness ==
    /\ Len(waves) = 2
    /\ Len(waves[1]) = 2
    /\ pc = "wave"
    /\ InFlight # {}

\* C5: a unit ends in the give-up outcome exactly when it has invoked the
\* renderer MAX_RETRIES times without a success; the renderer is never
\* invoked more than MAX_RETRIES times for one unit, and a unit on the
\* render path that has returned without success has made all of them.
C5_GiveUpAfterMaxRetries ==
    \A i \in UnitIds :
        /\ units[i].calls <= MAX_RETRIES
        /\ units[i].outcome = "GiveUp" =>
              /\ units[i].calls = MAX_RETRIES
              /\ units[i].pc = "done"
              /\ units[i].result = None
        /\ (units[i].pc = "done" /\ units[i].calls > 0 /\ units[i].outcome # "Success") =>
              /\ units[i].outcome = "GiveUp"
              /\ units[i].calls = MAX_RETRIES

C5_Witness ==
    \E i \in UnitIds : units[i].outcome = "GiveUp" /\ units[i].calls = MAX_RETRIES

\* C6: a unit whose render attempt succeeded has returned that result after
\* exactly one renderer invocation more than it had failed attempts, and it
\* takes no further step.
C6_FirstSuccessWins ==
    /\ [](\A i \in UnitIds :
            units[i].outcome = "Success" =>
                /\ units[i].pc = "done"
                /\ units[i].calls = units[i].attempt + 1
                /\ units[i].result = SitePage(units[i].url))
    /\ [][\A i \in UnitIds :
            (units[i].outcome = "Success" /\ waves' = waves) => units'[i] = units[i]]_vars

C6_Witness ==
    \E i \in UnitIds :
        /\ units[i].outcome = "Success"
        /\ units[i].calls = 3
        /\ \E j \in UnitIds : units[j].pc \in InFlightPcs

\* C7: once a wave has been folded, every URL of the frontier has the host
\* of the first seed URL, and so has every URL of every wave after the
\* seed wave.
C7_FrontierInDomainScope ==
    /\ depth >= 1 => \A u \in current_urls : HostOf[u] = HostOf[start_urls[1]]
    /\ \A d \in 2..Len(waves) :
          \A k \in 1..Len(waves[d]) : HostOf[waves[d][k]] = HostOf[start_urls[1]]

C7_Witness ==
    /\ Folded
    /\ current_urls # {}
    /\ \E i \in UnitIds :
          /\ units[i].outcome = "Success"
          /\ \E k \in 1..Len(units[i].result.links) :
                HostOf[units[i].result.links[k]] # HostOf[start_urls[1]]

\* the unit has met a failure: a probe error, a download error, or render
\* attempts that all failed
Failed(i) == units[i].outcome \in {"GiveUp", "DownloadError"} \/ units[i].probe = "err"

\* C8: a probe error, a download error or a renderer failure or exception
\* never aborts the crawl: no exception leaves a unit; at the fold every
\* unit of the wave has its own outcome; between two waves the loop can
\* always start the next wave or end; and a wave in which a unit has failed
\* is folded all the same.
C8_FailureDoesNotAbort ==
    /\ [](/\ pc # "aborted"
          /\ \A i \in UnitIds : units[i].pc # "raised"
          /\ pc = "loop" => ENABLED (StartWave \/ Finish)
          /\ Folded => \A i \in UnitIds :
                /\ units[i].pc = "done"
                /\ units[i].outcome \in {"Success", "Downloaded", "DownloadError", "GiveUp"})
    /\ (pc = "wave" /\ \E i \in UnitIds : Failed(i)) ~> (depth = Len(waves))

C8_Witness ==
    /\ Folded
    /\ \E i \in UnitIds : units[i].outcome = "GiveUp" /\ units[i].probe = "err"
    /\ \E i \in UnitIds : units[i].outcome = "Success"

\* C9: a unit whose classification probe failed is on the render path: it
\* never downloads, and it does not return before it has invoked the
\* renderer at least once.
C9_ProbeErrorMeansPage ==
    \A i \in UnitIds :
        units[i].probe = "err" =>
            /\ units[i].downloads = 0
            /\ units[i].pc \in {"render", "sleep", "done"}
            /\ units[i].pc = "done" =>
                  /\ units[i].calls >= 1
                  /\ units[i].outcome \in {"Success", "GiveUp"}

C9_Witness ==
    \E i \in UnitIds :
        units[i].probe = "err" /\ units[i].pc = "done" /\ units[i].outcome = "Success"

\* C10: with max_depth = 0 no wave runs: no unit exists, visited stays
\* empty and nothing is written, whatever the seed list.
C10_DepthZeroDoesNothing ==
    max_depth = 0 =>
        /\ waves = <<>>
        /\ units = <<>>
        /\ visited = {}
        /\ outputs = {}
        /\ docs = {}
        /\ map_file = <<>>

C10_Witness == max_depth = 0 /\ pc = "done" /\ Len(start_urls) = 2

\* the seed wave is folded and no later wave has started
SeedWaveFolded == Folded /\ Len(waves) = 1

\* every page rendered in the wave links only to hosts other than that of
\* the first seed URL
OnlyOffDomainLinks ==
    \A i \in UnitIds :
        units[i].outcome = "Success" =>
            \A k \in 1..Len(units[i].result.links) :
                HostOf[units[i].result.links[k]] # HostOf[start_urls[1]]

\* C11: if every page rendered in the seed wave links only to hosts other
\* than that of the first seed URL, the frontier after the first fold is
\* empty, no second wave can start, and the only step the loop takes is the
\* one that ends the crawl, whatever max_depth >= 1 is.
C11_OffDomainLinksEndCrawl ==
    /\ []((SeedWaveFolded /\ OnlyOffDomainLinks) =>
            /\ current_urls = {}
            /\ ~ENABLED StartWave
            /\ pc = "loop" => ENABLED Finish)
    /\ [][(SeedWaveFolded /\ OnlyOffDomainLinks) => (pc' = "done" /\ waves' = waves)]_vars

C11_Witness ==
    /\ SeedWaveFolded
    /\ OnlyOffDomainLinks
    /\ pc = "done"
    /\ max_depth = 2
    /\ \E i \in UnitIds : units[i].outcome = "Success" /\ units[i].result.links # NoLinks

\* the URL is one of the host other.test
OnOtherHost(u) == HostOf[u] = HostOf[ExOther]

\* C12: in the scenario the crawl runs two waves, the root and then /a,
\* and renders each of them once; at the end visited holds the two
\* normalized URLs, /a among them, and the output directory holds the two
\* pages' files. No URL of other.test is ever in the frontier, in visited
\* or handed to a unit; no unit ever downloads, and the map file and the
\* documents directory stay empty.
C12_Scenario ==
    /\ \A u \in current_urls \cup visited \cup UNION {Range(waves[d]) : d \in 1..Len(waves)} :
          ~OnOtherHost(u)
    /\ \A d \in 1..Len(waves) : waves[d] = IF d = 1 THEN <<ExRoot>> ELSE <<ExA>>
    /\ \A i \in UnitIds :
          /\ units[i].pc \notin {"download", "body", "sleep", "raised"}
          /\ units[i].calls <= 1
          /\ units[i].downloads = 0
          /\ units[i].pc = "done" => units[i].outcome = "Success" /\ units[i].calls = 1
    /\ map_file = <<>>
    /\ docs = {}
    /\ pc # "aborted"
    /\ pc = "done" =>
          /\ Len(waves) = 2
          /\ visited = {ExRoot, ExA}
          /\ outputs = {<<OutputName(ExRoot), "root text">>, <<OutputName(ExA), "a text">>}
          /\ Cardinality({f[1] : f \in outputs}) = 2

C12_Witness ==
    /\ pc = "done"
    /\ Normalized[ExA] \in visited
    /\ Cardinality(outputs) = 2
    /\ ExB \in current_urls
    /\ \E i \in UnitIds :
          \E k \in 1..Len(units[i].result.links) : OnOtherHost(units[i].result.links[k])

\* the records a download of this site can append to the map file
MapRecords == {MapRecord(u, SiteDownloadName[u]) : u \in KnownUrls}

\* the text is a sequence of whole records: each line, up to and with its
\* newline, is the record of one URL, and nothing follows the last newline
RECURSIVE WholeRecords(_)
WholeRecords(text) ==
    \/ text = <<>>
    \/ /\ Find(text, "\n", 1) # 0
       /\ Upto(text, Find(text, "\n", 1) + 1) \in MapRecords
       /\ WholeRecords(From(text, Find(text, "\n", 1) + 1))

\* C13: whatever the interleaving of the units of a wave, the map file is
\* at every moment a sequence of whole `url,filename` lines, and a unit that
\* has downloaded has its own line in it.
C13_MapFileHoldsWholeRecords ==
    /\ WholeRecords(map_file)
    /\ \A i \in UnitIds :
          units[i].outcome = "Downloaded" =>
              \E k \in 1..Len(map_file) :
                  LET record == MapRecord(units[i].url, SiteDownloadName[units[i].url])
                  IN  SubSeq(map_file, k, k + Len(record) - 1) = record

C13_Witness ==
    /\ pc = "wave"
    /\ map_file # <<>>
    /\ \E i, j \in UnitIds :
          /\ i < j
          /\ units[i].pc = "body"
          /\ units[j].outcome = "Downloaded"

\* the URL ends in .pdf, .doc, .docx or .txt, in some letter case
EndsInDocEnding(url) == \E e \in DocEndings : EndsWith(url, e)

\* C14: a unit whose URL ends in .pdf, .doc, .docx or .txt, in any letter
\* case, is classified downloadable by the extension test alone: once it is
\* classified, no header probe was sent for it and it is on the download
\* path, never on the render path.
C14_DocExtensionNeedsNoProbe ==
    \A i \in UnitIds :
        (EndsInDocEnding(units[i].url) /\ units[i].pc \notin {"wait", "classify"}) =>
            /\ units[i].probe = "ext"
            /\ units[i].pc \in {"download", "done"}
            /\ units[i].calls = 0

C14_Witness ==
    \E i \in UnitIds :
        /\ EndsWith(units[i].url, <<".","D","o","c","X">>)
        /\ units[i].probe = "ext"
        /\ units[i].pc = "download"

\* C15: normalizing a normalized URL gives the same URL: when line 116
\* normalizes the members of current_urls, themselves results of
\* normalize_url, every one of them comes out as it went in.
C15_NormalizeIdempotent ==
    pc = "renormalized" => Range(urls_to_crawl) = current_urls

\* C16: two URLs that differ only by the fragment, by slashes after the
\* path, or by the letter case of scheme, host or path are one member of
\* the frontier: line 111 maps both to the same normalized URL.
C16_AlikeUrlsNormalizeAlike ==
    (pc = "normalized" /\ start_urls \in AlikeLists) => Cardinality(current_urls) = 1

\* C17: once a wave has been folded, the frontier handed to the next depth
\* holds no URL of visited as the fold left it, the URLs of the wave just
\* folded included.
C17_FrontierDisjointFromVisited == Folded => current_urls \cap visited = {}

\* C18: a unit that makes one more render attempt after a failed one has
\* gone through the delay in between: no step takes a unit from one render
\* attempt straight to the point where it makes the next one, whether the
\* renderer reported failure or threw.
C18_DelayBetweenAttempts ==
    [][\A i \in UnitIds :
          (/\ waves' = waves
           /\ units[i].pc = "render"
           /\ units'[i].calls = units[i].calls + 1)
          => units'[i].pc # "render"]_vars

\* a step of unit i: its task takes the semaphore, classifies, downloads,
\* makes a render attempt or wakes up from the delay
UnitStep(i) ==
    \/ Acquire(i) \/ Classify(i) \/ Download(i) \/ DownloadBody(i)
    \/ RenderAttempt(i) \/ Sleep(i)

\* C19: no step of a unit changes visited or the frontier; a step that
\* changes either of them is the fold, taken when every unit of the wave
\* has returned.
C19_OnlyFoldWritesVisitedAndFrontier ==
    /\ [][(\E i \in UnitIds : UnitStep(i)) =>
            (visited' = visited /\ current_urls' = current_urls)]_vars
    /\ [][(visited' # visited \/ current_urls' # current_urls) =>
            (Fold /\ \A i \in UnitIds : units[i].pc = "done")]_vars

C19_Witness ==
    /\ pc = "wave"
    /\ Len(waves) = 2
    /\ visited # {}
    /\ current_urls # {}
    /\ \E i \in UnitIds : units[i].pc = "done" /\ units[i].outcome = "Success"
    /\ \E i \in UnitIds : units[i].pc = "sleep"

\* C20: every crawl ends, and no crawl runs more than max_depth waves,
\* whatever the links between the pages (the site of the model has the
\* cycle root -> x -> root) and whatever fails.
C20_CrawlTerminates ==
    /\ <>(pc = "done")
    /\ [](Len(waves) <= max_depth /\ depth <= max_depth)

C20_Witness ==
    /\ pc = "done"
    /\ max_depth = 2
    /\ Len(waves) = max_depth
    /\ current_urls # {}
    /\ Normalized[SeedRoot] \in visited /\ UrlX \in visited
    /\ \E i \in UnitIds : Failed(i)

\* the unit's URL was classified downloadable, by its extension or by the
\* header probe
ClassifiedDownloadable(i) == units[i].probe \in {"ext", "doc"}

\* C21: a unit whose URL was classified downloadable calls download_file
\* once and never the renderer, whether the download succeeds or fails; the
\* step that ends a successful download appends that unit's record to the
\* map file, a failed download appends nothing, and nothing else ever
\* changes the map file.
C21_DownloadOnceNoRender ==
    /\ [](\A i \in UnitIds :
            ClassifiedDownloadable(i) =>
                /\ units[i].calls = 0
                /\ units[i].downloads <= 1
                /\ units[i].pc \in {"download", "body", "done"}
                /\ units[i].pc = "done" =>
                      /\ units[i].downloads = 1
                      /\ units[i].outcome \in {"Downloaded", "DownloadError"})
    /\ [][\A i \in UnitIds :
            (waves' = waves /\ units[i].pc # "done" /\ units'[i].pc = "done") =>
                /\ units'[i].outcome = "Downloaded" =>
                      map_file' = map_file \o MapRecord(units[i].url, SiteDownloadName[units[i].url])
                /\ units'[i].outcome # "Downloaded" => map_file' = map_file]_vars
    /\ [][map_file' # map_file =>
            \E i \in UnitIds :
                /\ ClassifiedDownloadable(i)
                /\ units[i].pc = "body"
                /\ units'[i].outcome = "Downloaded"]_vars

C21_Witness ==
    /\ map_file # <<>>
    /\ \E i, j \in UnitIds :
          /\ units[i].probe = "ext" /\ units[i].outcome = "Downloaded"
          /\ units[j].probe = "doc" /\ units[j].outcome = "DownloadError"
          /\ units[j].downloads = 1

\* C22: at the end of a crawl every page that was rendered has its text in
\* its output file, and there are as many output files as rendered pages:
\* no two pages share a file.
C22_OneOutputFilePerPage ==
    pc = "done" =>
        /\ \A i \in UnitIds :
              units[i].outcome = "Success" =>
                  <<OutputName(units[i].result.url), units[i].result.markdown>> \in outputs
        /\ Cardinality(outputs) = Cardinality(visited)

\* C23: the list of URLs handed to the units of a wave names no URL twice,
\* also when the seed list holds several spellings of one page.
C23_NoUrlTwiceInWave ==
    \A i, j \in 1..Len(urls_to_crawl) : urls_to_crawl[i] = urls_to_crawl[j] => i = j

====
